---- MODULE Spec2Model ----
(***************************************************************************)
(* The VRPTW constraint model of src/src/vrp/vrptw.py.                     *)
(*                                                                         *)
(* Two specifications:                                                     *)
(*   Spec      ProblemData -> vehicle_routing_problem_time_windows ->      *)
(*             model.solve(): the model is built in one pass, then a       *)
(*             solver assigns the model's variables one at a time and      *)
(*             reports the assignments that satisfy every constraint.      *)
(*   SpecData  raw instance -> instance2data.                              *)
(***************************************************************************)
EXTENDS Integers, Sequences, FiniteSets, TLC

VARIABLES pc, data, model, todo, sol, objective, raw, result

vars == <<pc, data, model, todo, sol, objective, raw, result>>

(***************************************************************************)
(* Bounds.                                                                 *)
(***************************************************************************)
\* The largest time value of a solution (stands for docplex's INTERVAL_MAX).
Horizon == 2

\* The sizes (num_vehicles, num_locations) of the Problem Data: one or two
\* vehicles, one or two clients between the two depots.
Sizes == {<<1, 3>>, <<1, 4>>, <<2, 3>>}

\* The numbers of a raw instance are counted in units of 1/Den.
Den == 100

\* The largest length of a raw demand vector and the largest number of rows
\* and of columns of a raw distance matrix.
MaxSide == 2

(***************************************************************************)
(* Helpers.                                                                *)
(***************************************************************************)
Max(a, b) == IF a >= b THEN a ELSE b
Min(a, b) == IF a <= b THEN a ELSE b

Range(s) == {s[i] : i \in DOMAIN s}

RECURSIVE SumSeq(_)
SumSeq(s) == IF s = <<>> THEN 0 ELSE Head(s) + SumSeq(Tail(s))

\* range(a, b) as a list
RECURSIVE RangeSeq(_, _)
RangeSeq(a, b) == IF a >= b THEN <<>> ELSE <<a>> \o RangeSeq(a + 1, b)

RECURSIVE Concat(_)
Concat(ss) == IF ss = <<>> THEN <<>> ELSE Head(ss) \o Concat(Tail(ss))

\* The orderings (lists without repetition) of a finite set.
RECURSIVE Permutations_(_)
Permutations_(S) ==
    IF S = {} THEN {<<>>}
    ELSE UNION {{<<x>> \o p : p \in Permutations_(S \ {x})} : x \in S}

(***************************************************************************)
(* ProblemData.__post_init__                                               *)
(***************************************************************************)
vehicles(d) == RangeSeq(0, d.num_vehicles)
clients(d) == RangeSeq(1, d.num_locations - 1)
locations(d) == RangeSeq(0, d.num_locations)

(***************************************************************************)
(* The docplex objects the builders create.                                *)
(***************************************************************************)
INTERVAL_MAX == Horizon

\* model.interval_var(): start, end and size range over [0, INTERVAL_MAX].
interval_var(optional) ==
    [optional |-> optional,
     start_min |-> 0, start_max |-> INTERVAL_MAX,
     end_min |-> 0, end_max |-> INTERVAL_MAX,
     size_min |-> 0, size_max |-> INTERVAL_MAX]

set_size(var, size) == [var EXCEPT !.size_min = size, !.size_max = size]
set_start_min(var, mn) == [var EXCEPT !.start_min = mn]
set_end_max(var, mx) == [var EXCEPT !.end_max = mx]

NoName == <<"none">>
NoMatrix == [i \in {} |-> 0]

\* A constraint of the model: every kind has the same fields.
Constraint(kind, seq, var, array, matrix) ==
    [kind |-> kind, seq |-> seq, var |-> var, array |-> array, matrix |-> matrix]

no_overlap(seq, matrix) == Constraint("no_overlap", seq, NoName, <<>>, matrix)
presence_of_eq_1(var) == Constraint("presence_of", NoName, var, <<>>, NoMatrix)
first(seq, var) == Constraint("first", seq, var, <<>>, NoMatrix)
last_(seq, var) == Constraint("last", seq, var, <<>>, NoMatrix)
alternative(var, array) == Constraint("alternative", NoName, var, array, NoMatrix)

CpoModel ==
    [interval_vars |-> [n \in {} |-> 0],
     sequence_vars |-> [n \in {} |-> 0],
     constraints |-> <<>>,
     objective |-> [end_of |-> <<>>, minus |-> 0]]

(***************************************************************************)
(* The builders.                                                           *)
(***************************************************************************)
VisitName(client) == <<"T", client>>
VehicleVisitName(vehicle, location) == <<"T", vehicle, location>>
RouteName(vehicle) == <<"R", vehicle>>

\* visit_var without set_start_min: the window's opening is forgotten.
visit_var_no_start_min(d, client) ==
    LET service_time == d.service_time[client]
        tw_late == d.time_windows[client][2]
    IN  set_end_max(set_size(interval_var(FALSE), service_time),
                    tw_late + service_time)

\* visit_var without set_end_max: the window's close is forgotten.
visit_var_no_end_max(d, client) ==
    LET service_time == d.service_time[client]
        tw_early == d.time_windows[client][1]
    IN  set_start_min(set_size(interval_var(FALSE), service_time), tw_early)

visit_var(d, client) ==
    LET service_time == d.service_time[client]
        tw_early == d.time_windows[client][1]
        tw_late == d.time_windows[client][2]
    IN  set_end_max(set_start_min(set_size(interval_var(FALSE), service_time),
                                  tw_early),
                    tw_late + service_time)

create_visit_variables(m, d) ==
    [m EXCEPT !.interval_vars =
        @ @@ [n \in {VisitName(c) : c \in Range(clients(d))} |->
                 visit_var(d, n[2])]]

create_vehicle_visit_variables(m, d) ==
    [m EXCEPT !.interval_vars =
        @ @@ [n \in {VehicleVisitName(k, i) :
                        k \in Range(vehicles(d)), i \in Range(locations(d))} |->
                 interval_var(TRUE)]]

route_intervals(d, vehicle) ==
    [p \in DOMAIN locations(d) |-> VehicleVisitName(vehicle, locations(d)[p])]

create_route_variables(m, d) ==
    [m EXCEPT !.sequence_vars =
        @ @@ [n \in {RouteName(k) : k \in Range(vehicles(d))} |->
                 route_intervals(d, n[2])]]

\* minimize_total_travel_time over the start-depot intervals (last = 0).
minimize_total_travel_time_start_depot(m, d) ==
    LET last == 0
        completion_times ==
            [p \in DOMAIN vehicles(d) |-> VehicleVisitName(vehicles(d)[p], last)]
        service_times ==
            [p \in DOMAIN clients(d) |-> d.service_time[clients(d)[p]]]
    IN  [m EXCEPT !.objective =
            [end_of |-> completion_times, minus |-> SumSeq(service_times)]]

minimize_total_travel_time(m, d) ==
    LET last == d.num_locations - 1
        completion_times ==
            [p \in DOMAIN vehicles(d) |-> VehicleVisitName(vehicles(d)[p], last)]
        service_times ==
            [p \in DOMAIN clients(d) |-> d.service_time[clients(d)[p]]]
    IN  [m EXCEPT !.objective =
            [end_of |-> completion_times, minus |-> SumSeq(service_times)]]

\* no_overlap_between_visits with the transposed travel-time matrix.
no_overlap_between_visits_transposed(m, d) ==
    [m EXCEPT !.constraints =
        @ \o [p \in DOMAIN vehicles(d) |->
                 no_overlap(RouteName(vehicles(d)[p]),
                            [i \in DOMAIN d.edge_weights |->
                                [j \in DOMAIN d.edge_weights |-> d.edge_weights[j][i]]])]]

no_overlap_between_visits(m, d) ==
    [m EXCEPT !.constraints =
        @ \o [p \in DOMAIN vehicles(d) |->
                 no_overlap(RouteName(vehicles(d)[p]), d.edge_weights)]]

\* depot_constraints without the last() constraint.
depot_constraints_no_last(d, vehicle) ==
    LET start_depot == 0
        first_visit == VehicleVisitName(vehicle, start_depot)
        end_depot == d.num_locations - 1
        last_visit == VehicleVisitName(vehicle, end_depot)
    IN  <<presence_of_eq_1(first_visit),
          presence_of_eq_1(last_visit),
          first(RouteName(vehicle), first_visit)>>

depot_constraints(d, vehicle) ==
    LET start_depot == 0
        first_visit == VehicleVisitName(vehicle, start_depot)
        end_depot == d.num_locations - 1
        last_visit == VehicleVisitName(vehicle, end_depot)
    IN  <<presence_of_eq_1(first_visit),
          presence_of_eq_1(last_visit),
          first(RouteName(vehicle), first_visit),
          last_(RouteName(vehicle), last_visit)>>

routes_start_and_end_at_depot(m, d) ==
    [m EXCEPT !.constraints =
        @ \o Concat([p \in DOMAIN vehicles(d) |->
                        depot_constraints(d, vehicles(d)[p])])]

\* client_alternative over all vehicles but the last one.
client_alternative_but_last_vehicle(d, client) ==
    alternative(VisitName(client),
                [p \in 1..(Len(vehicles(d)) - 1) |->
                    VehicleVisitName(vehicles(d)[p], client)])

client_alternative(d, client) ==
    alternative(VisitName(client),
                [p \in DOMAIN vehicles(d) |->
                    VehicleVisitName(vehicles(d)[p], client)])

assign_each_client_to_one_vehicle(m, d) ==
    [m EXCEPT !.constraints =
        @ \o [p \in DOMAIN clients(d) |-> client_alternative(d, clients(d)[p])]]

\* vehicle_routing_problem_time_windows with the capacity constraints of the
\* TODO added: one constraint per vehicle that holds demand and capacity.
vehicle_routing_problem_time_windows_with_capacity(d) ==
    LET m0 == CpoModel
        m1 == create_visit_variables(m0, d)
        m2 == create_vehicle_visit_variables(m1, d)
        m3 == create_route_variables(m2, d)
        m4 == minimize_total_travel_time(m3, d)
        m5 == no_overlap_between_visits(m4, d)
        m6 == routes_start_and_end_at_depot(m5, d)
        m7 == assign_each_client_to_one_vehicle(m6, d)
    IN  [m7 EXCEPT !.constraints =
            @ \o [p \in DOMAIN vehicles(d) |->
                     Constraint("capacity", RouteName(vehicles(d)[p]), NoName, <<>>,
                                [i \in {0} |-> [j \in DOMAIN d.demand |->
                                                   d.demand[j] - d.capacity]])]]

vehicle_routing_problem_time_windows(d) ==
    LET m0 == CpoModel
        m1 == create_visit_variables(m0, d)
        m2 == create_vehicle_visit_variables(m1, d)
        m3 == create_route_variables(m2, d)
        m4 == minimize_total_travel_time(m3, d)
        m5 == no_overlap_between_visits(m4, d)
        m6 == routes_start_and_end_at_depot(m5, d)
        m7 == assign_each_client_to_one_vehicle(m6, d)
    IN  m7

(***************************************************************************)
(* The solver: model.solve().  A solution gives every interval variable a  *)
(* value (absent, or present with a start and an end; the size of an       *)
(* interval is its length) and every sequence variable an ordering of its  *)
(* present intervals, named by their types: an interval's type is its      *)
(* index in the list the sequence variable was created from.               *)
(***************************************************************************)
Absent == [present |-> FALSE, start |-> 0, end |-> 0]

IntervalDomain(var) ==
    {[present |-> TRUE, start |-> se[1], end |-> se[2]] :
        se \in {x \in (Max(0, var.start_min)..Min(INTERVAL_MAX, var.start_max))
                      \X (Max(0, var.end_min)..Min(INTERVAL_MAX, var.end_max)) :
                    /\ x[2] - x[1] >= var.size_min
                    /\ x[2] - x[1] <= var.size_max}}
    \cup (IF var.optional THEN {Absent} ELSE {})

\* The types of the present intervals of a sequence variable.
PresentTypes(list, s) ==
    {p - 1 : p \in {q \in DOMAIN list : s.intervals[list[q]].present}}

SequenceDomain(list, s) == Permutations_(PresentTypes(list, s))

IsInterval(m, n) == n \in DOMAIN m.interval_vars

\* The constraints, on a partial assignment: a constraint is violated only
\* by the variables that have a value.
HoldsPresence(m, c, s) ==
    c.var \in DOMAIN s.intervals => s.intervals[c.var].present

HoldsFirst(m, c, s) ==
    (/\ c.seq \in DOMAIN s.sequences
     /\ c.var \in DOMAIN s.intervals
     /\ s.intervals[c.var].present)
    => LET order == s.sequences[c.seq]
           list == m.sequence_vars[c.seq]
       IN  order # <<>> /\ list[order[1] + 1] = c.var

HoldsLast(m, c, s) ==
    (/\ c.seq \in DOMAIN s.sequences
     /\ c.var \in DOMAIN s.intervals
     /\ s.intervals[c.var].present)
    => LET order == s.sequences[c.seq]
           list == m.sequence_vars[c.seq]
       IN  order # <<>> /\ list[order[Len(order)] + 1] = c.var

\* no_overlap(sequence, distance_matrix), is_direct left at its default: the
\* transition distance holds between an interval and all its successors.
HoldsNoOverlap(m, c, s) ==
    c.seq \in DOMAIN s.sequences
    => LET order == s.sequences[c.seq]
           list == m.sequence_vars[c.seq]
       IN  \A p \in DOMAIN order : \A q \in DOMAIN order :
              p < q =>
                s.intervals[list[order[q] + 1]].start >=
                    s.intervals[list[order[p] + 1]].end
                    + c.matrix[order[p]][order[q]]

\* alternative(interval, array): exactly one interval of the array is
\* present, and it starts and ends with the interval.
HoldsAlternative(m, c, s) ==
    c.var \in DOMAIN s.intervals
    => LET master == s.intervals[c.var]
           assigned == {p \in DOMAIN c.array : c.array[p] \in DOMAIN s.intervals}
           chosen == {p \in assigned : s.intervals[c.array[p]].present}
       IN  IF master.present
           THEN /\ \A p \in chosen :
                      /\ s.intervals[c.array[p]].start = master.start
                      /\ s.intervals[c.array[p]].end = master.end
                /\ Cardinality(chosen) <= 1
                /\ assigned = DOMAIN c.array => Cardinality(chosen) = 1
           ELSE chosen = {}

Holds(m, c, s) ==
    CASE c.kind = "presence_of" -> HoldsPresence(m, c, s)
      [] c.kind = "first" -> HoldsFirst(m, c, s)
      [] c.kind = "last" -> HoldsLast(m, c, s)
      [] c.kind = "no_overlap" -> HoldsNoOverlap(m, c, s)
      [] c.kind = "alternative" -> HoldsAlternative(m, c, s)

Consistent(m, s) == \A p \in DOMAIN m.constraints : Holds(m, m.constraints[p], s)

\* A set of names as a list, by the index in the name.
RECURSIVE SortNames(_)
SortNames(S) ==
    IF S = {} THEN <<>>
    ELSE LET x == CHOOSE y \in S : \A z \in S : y[2] <= z[2]
         IN  <<x>> \o SortNames(S \ {x})

\* The order in which the solver assigns the variables: the intervals of no
\* sequence, then each sequence's intervals followed by the sequence.
VarOrder(m) ==
    LET seqs == SortNames(DOMAIN m.sequence_vars)
        inSeq == UNION {Range(m.sequence_vars[r]) : r \in DOMAIN m.sequence_vars}
        free == SortNames(DOMAIN m.interval_vars \ inSeq)
    IN  free \o Concat([p \in DOMAIN seqs |->
                           m.sequence_vars[seqs[p]] \o <<seqs[p]>>])

EmptySolution == [intervals |-> [n \in {} |-> 0], sequences |-> [n \in {} |-> 0]]

\* end_of(interval): 0 for an absent interval.
end_of(s, n) == IF s.intervals[n].present THEN s.intervals[n].end ELSE 0

ObjectiveValue(m, s) ==
    SumSeq([p \in DOMAIN m.objective.end_of |-> end_of(s, m.objective.end_of[p])])
    - m.objective.minus

(***************************************************************************)
(* Problem Data of Spec.                                                   *)
(***************************************************************************)
Weights == {0, 1}
ServiceTimes == {0, 1}
TimeWindows == {<<0, 0>>, <<0, 1>>, <<1, 2>>}

\* Travel times: out from the depot and towards higher indices, back towards
\* lower indices and to the depot; the end depot mirrors the start depot.
EdgeWeights(n, out, back) ==
    [i \in 0..(n - 1) |-> [j \in 0..(n - 1) |->
        LET a == IF i = n - 1 THEN 0 ELSE i
            b == IF j = n - 1 THEN 0 ELSE j
        IN  IF a = b THEN 0 ELSE IF a < b THEN out ELSE back]]

ProblemData(nv, n, out, back, st, tw) ==
    [num_vehicles |-> nv,
     capacity |-> 1,
     num_locations |-> n,
     edge_weights |-> EdgeWeights(n, out, back),
     service_time |-> [i \in 0..(n - 2) |-> IF i = 0 THEN 0 ELSE st[i]],
     time_windows |-> [i \in 0..(n - 2) |-> IF i = 0 THEN <<0, Horizon>> ELSE tw[i]],
     demand |-> [i \in 0..(n - 2) |-> IF i = 0 THEN 0 ELSE 1]]

ModelData ==
    {ProblemData(z[1], z[2], w[1], w[2], st, tw) :
        z \in Sizes, w \in Weights \X Weights,
        st \in [1..2 -> ServiceTimes], tw \in [1..2 -> TimeWindows]}

NoData == [num_vehicles |-> 0]
NoRaw == [demand |-> <<>>]
NoResult == [status |-> "none"]

(***************************************************************************)
(* Spec: build the model of a Problem Data value and solve it.             *)
(***************************************************************************)
Init ==
    /\ pc = "data"
    /\ data \in ModelData
    /\ model = CpoModel
    /\ todo = <<>>
    /\ sol = EmptySolution
    /\ objective = 0
    /\ raw = NoRaw
    /\ result = NoResult

Build ==
    /\ pc = "data"
    /\ model' = vehicle_routing_problem_time_windows(data)
    /\ pc' = "built"
    /\ UNCHANGED <<data, todo, sol, objective, raw, result>>

Solve ==
    /\ pc = "built"
    /\ todo' = VarOrder(model)
    /\ sol' = EmptySolution
    /\ pc' = "search"
    /\ UNCHANGED <<data, model, objective, raw, result>>

Extend(m, s, n, v) ==
    IF IsInterval(m, n)
    THEN [s EXCEPT !.intervals = @ @@ (n :> v)]
    ELSE [s EXCEPT !.sequences = @ @@ (n :> v)]

Assign ==
    /\ pc = "search"
    /\ todo # <<>>
    /\ LET n == Head(todo)
           dom == IF IsInterval(model, n)
                  THEN IntervalDomain(model.interval_vars[n])
                  ELSE SequenceDomain(model.sequence_vars[n], sol)
       IN  \E v \in dom :
              /\ Consistent(model, Extend(model, sol, n, v))
              /\ sol' = Extend(model, sol, n, v)
    /\ todo' = Tail(todo)
    /\ UNCHANGED <<pc, data, model, objective, raw, result>>

Report ==
    /\ pc = "search"
    /\ todo = <<>>
    /\ objective' = ObjectiveValue(model, sol)
    /\ pc' = "solved"
    /\ UNCHANGED <<data, model, todo, sol, raw, result>>

Next == Build \/ Solve \/ Assign \/ Report

Spec == Init /\ [][Next]_vars

(***************************************************************************)
(* Properties of the solutions of the built model (Spec).                  *)
(***************************************************************************)
Solved == pc = "solved"
Value(n) == sol.intervals[n]
Route(k) == sol.sequences[RouteName(k)]
Vehicles == Range(vehicles(data))
Clients == Range(clients(data))
Last == data.num_locations - 1

\* The vehicles whose optional interval at a location is present.
Serving(location) ==
    {k \in Vehicles : Value(VehicleVisitName(k, location)).present}

\* The locations of a vehicle's route, in route order.
RouteLocations(k) ==
    [p \in DOMAIN Route(k) |-> model.sequence_vars[RouteName(k)][Route(k)[p] + 1][3]]

\* C1: in every solution, every client has exactly one present vehicle-visit
\* interval over all vehicles, and that interval starts and ends with the
\* client's visit interval.
C1_ExactlyOneVehiclePerClient ==
    Solved =>
        \A c \in Clients :
            /\ Cardinality(Serving(c)) = 1
            /\ \A k \in Serving(c) :
                  /\ Value(VehicleVisitName(k, c)).start = Value(VisitName(c)).start
                  /\ Value(VehicleVisitName(k, c)).end = Value(VisitName(c)).end

\* C1 witness: a solution of a two-vehicle model in which the second vehicle
\* serves a client.
C1_Witness ==
    /\ Solved
    /\ data.num_vehicles = 2
    /\ \E c \in Clients : Serving(c) = {1}

\* C2: in every solution, two consecutive present intervals of a vehicle's
\* route at locations i then j satisfy start(j) >= end(i) + edge_weights[i][j],
\* the route's intervals being indexed by location like edge_weights.
C2_TravelTimeBetweenConsecutiveVisits ==
    Solved =>
        \A k \in Vehicles :
            /\ \A p \in DOMAIN Route(k) : RouteLocations(k)[p] = Route(k)[p]
            /\ \A p \in 1..(Len(Route(k)) - 1) :
                  LET i == RouteLocations(k)[p]
                      j == RouteLocations(k)[p + 1]
                  IN  Value(VehicleVisitName(k, j)).start >=
                          Value(VehicleVisitName(k, i)).end + data.edge_weights[i][j]

\* C2 witness: a solution with a route of two clients between the depots
\* whose travel time from the first to the second differs from the travel
\* time back.
C2_Witness ==
    /\ Solved
    /\ \E k \in Vehicles :
          /\ Len(Route(k)) = 4
          /\ LET i == RouteLocations(k)[2]
                 j == RouteLocations(k)[3]
             IN  data.edge_weights[i][j] > data.edge_weights[j][i]

\* C3: in every solution, every vehicle's start-depot and end-depot intervals
\* are present, the start depot first and the end depot last in its route.
C3_RoutesStartAndEndAtDepot ==
    Solved =>
        \A k \in Vehicles :
            /\ Value(VehicleVisitName(k, 0)).present
            /\ Value(VehicleVisitName(k, Last)).present
            /\ Route(k) # <<>>
            /\ RouteLocations(k)[1] = 0
            /\ RouteLocations(k)[Len(Route(k))] = Last

\* C3 witness: a solution in which a vehicle serves no client.
C3_Witness ==
    /\ Solved
    /\ \E k \in Vehicles : \A c \in Clients : k \notin Serving(c)

\* C4: every client's visit interval has the fixed size service_time, and in
\* every solution it starts within [earliest, latest] and ends by
\* latest + service_time.
C4_VisitWithinTimeWindow ==
    /\ pc # "data" =>
          \A c \in Clients :
              /\ model.interval_vars[VisitName(c)].size_min = data.service_time[c]
              /\ model.interval_vars[VisitName(c)].size_max = data.service_time[c]
    /\ Solved =>
          \A c \in Clients :
              /\ Value(VisitName(c)).present
              /\ Value(VisitName(c)).end - Value(VisitName(c)).start
                    = data.service_time[c]
              /\ Value(VisitName(c)).start >= data.time_windows[c][1]
              /\ Value(VisitName(c)).start <= data.time_windows[c][2]
              /\ Value(VisitName(c)).end
                    <= data.time_windows[c][2] + data.service_time[c]

\* C4 witness: a solution in which a visit with a positive service time
\* starts when its window closes, after the window opened.
C4_Witness ==
    /\ Solved
    /\ \E c \in Clients :
          /\ data.service_time[c] > 0
          /\ data.time_windows[c][1] < data.time_windows[c][2]
          /\ Value(VisitName(c)).start = data.time_windows[c][2]

RECURSIVE SumOver(_, _)
SumOver(S, f) ==
    IF S = {} THEN 0
    ELSE LET x == CHOOSE y \in S : TRUE IN f[x] + SumOver(S \ {x}, f)

\* C7: the objective value of a solution is the sum over the vehicles of the
\* end of the end-depot interval minus the sum over the clients of the
\* service time, and it is not negative.
C7_ObjectiveIsTravelAndWaitingTime ==
    Solved =>
        /\ objective =
              SumOver(Vehicles, [k \in Vehicles |-> Value(VehicleVisitName(k, Last)).end])
              - SumOver(Clients, data.service_time)
        /\ objective >= 0

\* C7 witness: a solution with a positive total service time and a positive
\* objective value.
C7_Witness ==
    /\ Solved
    /\ SumOver(Clients, data.service_time) > 0
    /\ objective > 0

Capacities == 0..3
Demands == [0..(data.num_locations - 2) -> 0..2]

\* C9: the built model does not depend on capacity and demand: Problem Data
\* that differs from the given one only in capacity and demand builds the
\* same variables, constraints and objective (so the same solutions).
C9_CapacityAndDemandIgnored ==
    pc = "built" =>
        \A cap \in Capacities : \A dem \in Demands :
            vehicle_routing_problem_time_windows(
                [data EXCEPT !.capacity = cap, !.demand = dem]) = model

\* C9 witness: a solution in which the demand served by one vehicle exceeds
\* the capacity.
C9_Witness ==
    /\ Solved
    /\ \E k \in Vehicles :
          SumOver({c \in Clients : k \in Serving(c)}, data.demand) > data.capacity

\* Some client's window closes before a vehicle leaving the start depot at
\* time 0 can reach it.
ClosesBeforeReachable(d) ==
    \E c \in Range(clients(d)) : d.time_windows[c][2] < d.edge_weights[0][c]

\* C10: when a client's window closes before any vehicle can reach it from
\* the start depot, the built model has no solution.
C10_UnreachableClientIsInfeasible ==
    ClosesBeforeReachable(data) => ~Solved

\* C10 witness: the model of such data is built and the solver has given a
\* value to the client's visit and to a start-depot interval.
C10_Witness ==
    /\ ClosesBeforeReachable(data)
    /\ pc = "search"
    /\ VehicleVisitName(0, 0) \in DOMAIN sol.intervals
    /\ \A c \in Clients : VisitName(c) \in DOMAIN sol.intervals

(***************************************************************************)
(* instance2data.  A raw number x is held as the integer x * Den; a raw     *)
(* matrix is held with its shape, so that a matrix with no rows or no      *)
(* columns keeps it.                                                       *)
(***************************************************************************)
SCALE == 10

\* scale_and_truncate that rounds to the nearest integer.
scale_and_round(x) == (2 * SCALE * x + Den) \div (2 * Den)

\* np.floor(x * 10).astype(int): an integer.
scale_and_truncate(x) == (SCALE * x) \div Den

\* x * 10, still counted in units of 1/Den.
scale(x) == SCALE * x

size(vector) == Cardinality(DOMAIN vector)

\* matrix[i, j] is inside the matrix.
InBounds(matrix, i, j) == i < matrix.rows /\ j < matrix.cols

\* numpy assigns `matrix` to a rows x cols slice when it broadcasts to it: each
\* of its dimensions is that of the slice, or 1 (and is then repeated).
Broadcasts(matrix, rows, cols) ==
    /\ matrix.rows = rows \/ matrix.rows = 1
    /\ matrix.cols = cols \/ matrix.cols = 1

Broadcast(matrix, i, j) ==
    matrix.at[<<IF matrix.rows = 1 THEN 0 ELSE i, IF matrix.cols = 1 THEN 0 ELSE j>>]

\* The loop of instance2data with the row and the column exchanged.
distance_matrix_exchanged(instance, num_locs) ==
    LET edge_weight == instance.edge_weight
    IN  [i \in 0..(num_locs - 1) |-> [j \in 0..(num_locs - 1) |->
            IF i < num_locs - 1 /\ j < num_locs - 1 THEN Broadcast(edge_weight, i, j)
            ELSE IF i = num_locs - 1 /\ j < num_locs - 1 THEN edge_weight.at[<<j, 0>>]
            ELSE IF j = num_locs - 1 /\ i < num_locs - 1 THEN edge_weight.at[<<0, i>>]
            ELSE 0]]

\* distance_matrix before scaling: zeros, the raw matrix in the top left
\* block, then the end depot's row and column from the start depot's.
distance_matrix(instance, num_locs) ==
    LET edge_weight == instance.edge_weight
    IN  [i \in 0..(num_locs - 1) |-> [j \in 0..(num_locs - 1) |->
            IF i < num_locs - 1 /\ j < num_locs - 1 THEN Broadcast(edge_weight, i, j)
            ELSE IF i = num_locs - 1 /\ j < num_locs - 1 THEN edge_weight.at[<<0, j>>]
            ELSE IF j = num_locs - 1 /\ i < num_locs - 1 THEN edge_weight.at[<<i, 0>>]
            ELSE 0]]

instance2data(instance) ==
    LET num_locs == size(instance.demand) + 1
        edge_weight == instance.edge_weight
    IN  IF ~Broadcasts(edge_weight, num_locs - 1, num_locs - 1)
        THEN [status |-> "ValueError", data |-> NoData]
        ELSE IF \E idx \in 0..(num_locs - 2) :
                    ~InBounds(edge_weight, 0, idx) \/ ~InBounds(edge_weight, idx, 0)
        THEN [status |-> "IndexError", data |-> NoData]
        ELSE [status |-> "ok",
              data |->
                [num_vehicles |-> instance.vehicles,
                 capacity |-> instance.capacity,
                 num_locations |-> num_locs,
                 edge_weights |->
                    [i \in 0..(num_locs - 1) |-> [j \in 0..(num_locs - 1) |->
                        scale_and_truncate(distance_matrix(instance, num_locs)[i][j])]],
                 service_time |->
                    [i \in DOMAIN instance.service_time |->
                        scale(instance.service_time[i])],
                 time_windows |->
                    [i \in DOMAIN instance.time_window |->
                        <<scale(instance.time_window[i][1]),
                          scale(instance.time_window[i][2])>>],
                 demand |-> instance.demand]]

(***************************************************************************)
(* SpecData: transform a raw instance.                                     *)
(***************************************************************************)
RawValues == {0, 7, 25}

RawMatrices ==
    UNION {{[rows |-> r, cols |-> c, at |-> a] :
               a \in [(0..(r - 1)) \X (0..(c - 1)) -> RawValues]} :
           r \in 0..MaxSide, c \in 0..MaxSide}

RawInstances ==
    {[demand |-> [i \in 0..(n - 1) |-> IF i = 0 THEN 0 ELSE 1],
      edge_weight |-> ew,
      service_time |-> [i \in 0..(n - 1) |-> IF i = 0 THEN 0 ELSE 25],
      time_window |-> [i \in 0..(n - 1) |-> <<0, 107>>],
      vehicles |-> 1,
      capacity |-> 1] :
        n \in 0..MaxSide, ew \in RawMatrices}

InitData ==
    /\ pc = "raw"
    /\ raw \in RawInstances
    /\ result = NoResult
    /\ data = NoData
    /\ model = CpoModel
    /\ todo = <<>>
    /\ sol = EmptySolution
    /\ objective = 0

Transform ==
    /\ pc = "raw"
    /\ result' = instance2data(raw)
    /\ pc' = "transformed"
    /\ UNCHANGED <<data, model, todo, sol, objective, raw>>

NextData == Transform

SpecData == InitData /\ [][NextData]_vars

(***************************************************************************)
(* Properties of instance2data (SpecData).                                 *)
(***************************************************************************)
Returned == pc = "transformed" /\ result.status = "ok"
Edge == result.data.edge_weights
LastLocation == result.data.num_locations - 1

\* The raw matrix is square and its side is the length of the demand vector.
ValidRaw ==
    /\ raw.edge_weight.rows = raw.edge_weight.cols
    /\ raw.edge_weight.rows = size(raw.demand)

\* C5 as stated: in the returned Problem Data, for all i in [0, num_locations),
\* i = last included, edge_weights[last][i] = edge_weights[0][i] and
\* edge_weights[i][last] = edge_weights[i][0].
C5_MirroredForAllLocations ==
    Returned =>
        \A i \in 0..LastLocation :
            /\ Edge[LastLocation][i] = Edge[0][i]
            /\ Edge[i][LastLocation] = Edge[i][0]

\* C5 amended: the two equalities hold for all i in [0, num_locations - 1);
\* edge_weights[last][last] is 0, while edge_weights[0][last] and
\* edge_weights[last][0] are edge_weights[0][0].
C5_MirroredForOtherLocations ==
    Returned =>
        /\ \A i \in 0..(LastLocation - 1) :
              /\ Edge[LastLocation][i] = Edge[0][i]
              /\ Edge[i][LastLocation] = Edge[i][0]
        /\ Edge[LastLocation][LastLocation] = 0
        /\ Edge[0][LastLocation] = Edge[0][0]
        /\ Edge[LastLocation][0] = Edge[0][0]

\* C5 witness: Problem Data of a valid raw instance with a client whose
\* travel time from the depot differs from the travel time to the depot.
C5_Witness ==
    /\ Returned
    /\ ValidRaw
    /\ LastLocation >= 2
    /\ Edge[0][1] # Edge[1][0]
    /\ Edge[LastLocation][1] = Edge[0][1]
    /\ Edge[1][LastLocation] = Edge[1][0]

\* The n x n input block extended with the end depot's row and column (the
\* start depot's), counted in units of 1/Den; the new corner stays 0.
Original(i, j) ==
    LET n == size(raw.demand)
        a == IF i = n THEN 0 ELSE i
        b == IF j = n THEN 0 ELSE j
    IN  IF i = n /\ j = n THEN 0 ELSE raw.edge_weight.at[<<a, b>>]

\* C6: for every valid raw instance, instance2data returns Problem Data with
\* num_locations = demand.size + 1 and a square edge_weights of that side,
\* every element the floor of 10 times the original element.
C6_LocationsAndScaledFloor ==
    (pc = "transformed" /\ ValidRaw) =>
        /\ result.status = "ok"
        /\ result.data.num_locations = size(raw.demand) + 1
        /\ DOMAIN Edge = 0..(result.data.num_locations - 1)
        /\ \A i \in DOMAIN Edge :
              /\ DOMAIN Edge[i] = 0..(result.data.num_locations - 1)
              /\ \A j \in DOMAIN Edge[i] :
                    /\ Edge[i][j] * Den <= 10 * Original(i, j)
                    /\ 10 * Original(i, j) < (Edge[i][j] + 1) * Den

\* C6 witness: Problem Data of a valid raw instance with a client, in which
\* flooring dropped a fraction.
C6_Witness ==
    /\ Returned
    /\ ValidRaw
    /\ LastLocation >= 2
    /\ \E i \in DOMAIN Edge : \E j \in DOMAIN Edge :
          Edge[i][j] > 0 /\ Edge[i][j] * Den < 10 * Original(i, j)

\* C8: instance2data fails, and returns no Problem Data, whenever the
\* distance matrix is not square or its side is not the length of the
\* demand vector.
C8_MalformedInstanceFails ==
    (pc = "transformed" /\ ~ValidRaw) => result.status # "ok"

====
